---- MODULE Spec2Model ----
(***************************************************************************)
(* A model of bytewise-space: namespaced handles over one ordered           *)
(* key-value store.                                                         *)
(*                                                                          *)
(*   Spec       the hook registry and space.batch of src/index.js           *)
(*   SpecHooks  the hook registry alone, with deregistration handles        *)
(*   SpecRange  preIterator of src/unnamed/part_000 (range translation)     *)
(*   SpecPrefix the Prefix objects of src/unnamed/part_000 and their keys    *)
(*   SpecTree   space.sublevel of src/index.js and its memo                  *)
(*                                                                          *)
(* Byte strings (Buffers) are sequences of numbers in 0..255. Values and     *)
(* the key and value encodings of an operation (addEncodings, kvOpts) are   *)
(* handed through by the code and are left out.                             *)
(***************************************************************************)
EXTENDS Integers, Sequences, FiniteSets, TLC

\* ------------------------------------------------------------------ bounds

\* Hook registrations (pre and post together) made on all handles.
MaxRegs == 2
\* Operations in the array the caller hands to batch.
MaxOps == 2
\* Invocations of one deregistration handle.
MaxCalls == 2
\* Prefix objects constructed on one store.
MaxPrefixes == 3
\* Segments of a Prefix's path.
MaxDepth == 2
\* Calls of sublevel made on the handles of one tree.
MaxSublevelCalls == 3

\* ------------------------------------------------------------ byte strings

RECURSIVE Flatten(_)
Flatten(ss) == IF ss = <<>> THEN <<>> ELSE Head(ss) \o Flatten(Tail(ss))

IsPrefixOf(p, k) == Len(p) <= Len(k) /\ SubSeq(k, 1, Len(p)) = p

\* The bytes of a string element as bytewise.encode leaves them inside an
\* array, so that no 0x00 is left in them: 0x00 and 0x01 become 0x01 and the
\* byte plus one, 0xFE and 0xFF become 0xFE and the byte minus one.
RECURSIVE Escape(_)
Escape(bytes) ==
  IF bytes = <<>> THEN <<>>
  ELSE LET b == Head(bytes)
       IN  (IF b \in {0, 1} THEN <<1, b + 1>>
            ELSE IF b \in {254, 255} THEN <<254, b - 1>>
            ELSE <<b>>) \o Escape(Tail(bytes))

\* bytewise.encode of an array that leaves the array open: no terminator
\* after the last element.
BytewiseEncodeOpen(path) ==
  <<160>> \o Flatten([n \in 1..Len(path) |-> <<112>> \o Escape(path[n]) \o <<0>>])

\* bytewise.encode of an array of strings: the array tag 0xA0, each element as
\* the string tag 0x70, its escaped bytes and a 0x00 terminator, then the
\* array's own 0x00 terminator.
BytewiseEncode(path) ==
  <<160>> \o Flatten([n \in 1..Len(path) |-> <<112>> \o Escape(path[n]) \o <<0>>]) \o <<0>>

\* ----------------------------------------------------------------- handles

\* Two handles over one store: "a" is a root space, "b" its sublevel. Each
\* handle has one namespace, named like the handle.
Spaces == {"a", "b"}

Path(s) == IF s = "a" THEN << <<114>> >> ELSE << <<114>>, <<115>> >>

\* Namespace.encode(key): the namespace's prefix bytes, then the key.
NsEncode(s, key) == BytewiseEncode(Path(s)) \o key

\* What op.prefix can be in an operation handed to batch: absent, a handle, or
\* an object whose .namespace is no Namespace.
Prefixes == {"none", "bad"} \cup Spaces

\* --------------------------------------------------------------- the hooks

\* Pre-hook functions, by what they do with (op, add, ops):
\*   noop    nothing
\*   cancel  add(false)
\*   injOwn  add({type: 'del', key: [9]})                 (no prefix)
\*   injB    add({type: 'del', key: [9], prefix: b})
\*   boom    throws
PreFns == {"noop", "cancel", "injOwn", "injB", "boom"}

\* Post-hook functions: see the operation, or throw.
PostFns == {"see", "bang"}

VARIABLES
  regs,        \* every registration made: <<[ns, kind, hook]>>, its index is the handle
  calls,       \* calls[d]: how often deregistration handle d was invoked
  prehooks,    \* prehooks[s]: ns.prehooks, as registrations (indices of regs)
  posthooks,   \* posthooks[s]: ns.posthooks, likewise
  pc,          \* "idle" | "tick" (nextTick scheduled) | "store" (db.batch pending) | "done"
  self,        \* the handle batch was called on
  ops,         \* the batch's ops array (holes included)
  ns,          \* the batch's `var ns`
  tick,        \* the error the scheduled nextTick will deliver
  events,      \* what the current batch call did, in order
  storeCalls,  \* the arrays db.batch was called with by the current batch call
  len,         \* the batch's `len`: the length of ops when the loop began
  reply,       \* what the store answered to db.batch: "none" | "ok" | "error"
  query,       \* a range query: the options preIterator is given, and the Prefix
  resolved,    \* the options preIterator hands to the store
  made,        \* the Prefix objects constructed, each with the one it was appended to
  keyed,       \* the last use of a Prefix on a key, and its result
  handles,     \* the Bytespace objects of one tree: their path and space.sublevels
  returned     \* every call of sublevel made: <<[on, segment, ret]>>

vars == <<regs, calls, prehooks, posthooks, pc, self, ops, ns, tick, events,
          storeCalls, len, reply, query, resolved, made, keyed, handles,
          returned>>

registry == <<regs, calls, prehooks, posthooks>>
batchVars == <<pc, self, ops, ns, tick, events, storeCalls, len, reply>>
rangeVars == <<query, resolved>>
prefixVars == <<made, keyed>>
treeVars == <<handles, returned>>

\* A hole of a JavaScript array (an index `delete` removed, or map skipped).
Hole == [type |-> "hole", key |-> <<>>, prefix |-> "none"]

\* A hole of the array handed to db.batch.
EncHole == [type |-> "hole", key |-> <<>>]

IsOp(o) == o.type # "hole"

\* The hook values of a list: what the code sees of it.
Hooks(list) == [n \in 1..Len(list) |-> regs[list[n]].hook]

Ev(kind, s, hook, i, op, info) ==
  [kind |-> kind, ns |-> s, hook |-> hook, i |-> i, op |-> op, info |-> info]

\* No range query: the value of query and resolved where none is followed.
NoQuery == [on |-> "-", reverse |-> FALSE, options |-> <<>>]

NoOptions == [none |-> TRUE]

\* No Prefix was used on a key.
NoKey == [op |-> "none"]

\* No Prefix constructed, no tree of handles followed.
NoPrefixes == made = <<>> /\ keyed = NoKey
NoTree == handles = <<>> /\ returned = <<>>

\* Freshly constructed handles: no hook registered, no batch call made.
InitSpaces ==
  /\ regs = <<>>
  /\ calls = <<>>
  /\ prehooks = [s \in Spaces |-> <<>>]
  /\ posthooks = [s \in Spaces |-> <<>>]
  /\ pc = "idle"
  /\ self = "a"
  /\ ops = <<>>
  /\ ns = "undef"
  /\ tick = "none"
  /\ events = <<>>
  /\ storeCalls = <<>>
  /\ len = 0
  /\ reply = "none"

Init ==
  /\ InitSpaces
  /\ query = NoQuery
  /\ resolved = NoOptions
  /\ NoPrefixes
  /\ NoTree

\* ------------------------------------------------------------ the registry

\* Array.prototype.indexOf, 1-based; 0 stands for JavaScript's -1.
IndexOf(seq, v) ==
  IF \E n \in 1..Len(seq) : seq[n] = v
  THEN CHOOSE n \in 1..Len(seq) : seq[n] = v /\ \A k \in 1..(n - 1) : seq[k] # v
  ELSE 0

\* hooks.splice(n, 1)
Splice(seq, n) == SubSeq(seq, 1, n - 1) \o SubSeq(seq, n + 1, Len(seq))

\* addHook's hooks.push(hook): the registration goes to the end of the list.
Push(list, d) == Append(list, d)

\* A deregistration that removes every entry equal to `hook`.
UnhookAll(list, hook) == SelectSeq(list, LAMBDA d : regs[d].hook # hook)

\* The function addHook returns: the first entry equal to `hook` is removed.
Unhook(list, hook) ==
  LET n == IndexOf(Hooks(list), hook)
  IN  IF n >= 1 THEN Splice(list, n) ELSE list

\* Hooks are registered and deregistered before the batch call that is
\* followed; that call finds every list the registry can hold.
Idle ==
  /\ pc = "idle"
  /\ UNCHANGED batchVars
  /\ UNCHANGED rangeVars
  /\ UNCHANGED prefixVars
  /\ UNCHANGED treeVars

\* space.pre(hook) on handle s
Pre(s, h) ==
  /\ Len(regs) < MaxRegs
  /\ regs' = Append(regs, [ns |-> s, kind |-> "pre", hook |-> h])
  /\ calls' = Append(calls, 0)
  /\ prehooks' = [prehooks EXCEPT ![s] = Push(@, Len(regs) + 1)]
  /\ UNCHANGED posthooks
  /\ Idle

\* space.post(hook) on handle s
Post(s, h) ==
  /\ Len(regs) < MaxRegs
  /\ regs' = Append(regs, [ns |-> s, kind |-> "post", hook |-> h])
  /\ calls' = Append(calls, 0)
  /\ posthooks' = [posthooks EXCEPT ![s] = Push(@, Len(regs) + 1)]
  /\ UNCHANGED prehooks
  /\ Idle

\* A call of the deregistration handle that registration d returned.
Dereg(d) ==
  /\ d \in 1..Len(regs)
  /\ calls[d] < MaxCalls
  /\ calls' = [calls EXCEPT ![d] = @ + 1]
  /\ IF regs[d].kind = "pre"
     THEN /\ prehooks' = [prehooks EXCEPT ![regs[d].ns] = Unhook(@, regs[d].hook)]
          /\ UNCHANGED posthooks
     ELSE /\ posthooks' = [posthooks EXCEPT ![regs[d].ns] = Unhook(@, regs[d].hook)]
          /\ UNCHANGED prehooks
  /\ UNCHANGED regs
  /\ Idle

\* ---------------------------------------------------------------- the batch

NoOp == Hole

\* The operation a pre-hook function injects with add(op).
Injected(h) ==
  [type |-> "del", key |-> <<9>>, prefix |-> IF h = "injB" THEN "b" ELSE "none"]

\* One pre-hook called with (op, add, ops) while the loop is at index m.i:
\* add(false) is `delete ops[i]`, add(op) is `ops.push(op)`. m.st becomes
\* "throw" when the hook throws.
CallPre(m, h) ==
  LET seen == [m EXCEPT !.ev = Append(@, Ev("pre", m.ns, h, m.i, m.ops[m.i], "-"))]
  IN  CASE h = "cancel" -> [seen EXCEPT !.ops[m.i] = Hole]
        [] h \in {"injOwn", "injB"} -> [seen EXCEPT !.ops = Append(@, Injected(h))]
        [] h = "boom" -> [seen EXCEPT !.st = "throw", !.err = "hookError"]
        [] OTHER -> seen

\* ns.trigger(ns.prehooks, op.prefix, [ op, add, ops ]): the hooks of the list,
\* in the list's order, each with the same op; a throw ends it.
RECURSIVE TriggerPre(_, _, _)
TriggerPre(m, hooks, n) ==
  IF n > Len(hooks) \/ m.st # "run" THEN m
  ELSE TriggerPre(CallPre(m, hooks[n]), hooks, n + 1)

\* The loop without its `instanceof Namespace` check: ns.prehooks of an
\* undefined ns is then a TypeError.
RECURSIVE PreLoopUnchecked(_)
PreLoopUnchecked(m) ==
  IF m.i > m.len \/ m.st # "run" THEN m
  ELSE
    LET op == IF m.ops[m.i].prefix = "none"
              THEN [m.ops[m.i] EXCEPT !.prefix = m.self]
              ELSE m.ops[m.i]
        m1 == [m EXCEPT !.ops[m.i] = op]
    IN  IF op.prefix \notin Spaces
        THEN [m1 EXCEPT !.ns = "undef", !.st = "throw", !.err = "typeError"]
        ELSE LET m2 == [m1 EXCEPT !.ns = op.prefix]
                 m3 == IF Len(prehooks[m2.ns]) > 0
                       THEN TriggerPre(m2, Hooks(prehooks[m2.ns]), 1)
                       ELSE m2
             IN  PreLoopUnchecked([m3 EXCEPT !.i = m.i + 1])

\* The for loop of batch, from index m.i to m.len, the length the array had
\* when the loop began.
RECURSIVE PreLoop(_)
PreLoop(m) ==
  IF m.i > m.len \/ m.st # "run" THEN m
  ELSE
    LET op == IF m.ops[m.i].prefix = "none"
              THEN [m.ops[m.i] EXCEPT !.prefix = m.self]
              ELSE m.ops[m.i]
        m1 == [m EXCEPT !.ops[m.i] = op]
    IN  IF op.prefix \notin Spaces
        THEN [m1 EXCEPT !.ns = "undef", !.st = "unknown"]
        ELSE LET m2 == [m1 EXCEPT !.ns = op.prefix]
                 m3 == IF Len(prehooks[m2.ns]) > 0
                       THEN TriggerPre(m2, Hooks(prehooks[m2.ns]), 1)
                       ELSE m2
             IN  PreLoop([m3 EXCEPT !.i = m.i + 1])

\* ops.map(...): holes stay holes; every other element gets its key encoded by
\* op.prefix.namespace.encode, which is a TypeError when op.prefix is absent or
\* has no Namespace.
RECURSIVE EncodeOps(_, _)
EncodeOps(m, n) ==
  IF n > Len(m.ops) \/ m.st # "run" THEN m
  ELSE
    LET op == m.ops[n]
    IN  IF ~IsOp(op) THEN EncodeOps([m EXCEPT !.enc = Append(@, EncHole)], n + 1)
        ELSE IF op.prefix \notin Spaces
        THEN [m EXCEPT !.st = "throw", !.err = "typeError"]
        ELSE LET key == NsEncode(op.prefix, op.key)
                 e == [type |-> op.type, key |-> key]
             IN  EncodeOps([m EXCEPT !.enc = Append(@, e),
                                     !.ev = Append(@, Ev("encode", op.prefix, "-", n, op, "-"))],
                           n + 1)

\* batch that encodes every key as it takes the operation up, before the
\* pre-hooks of the operations are called.
RunBatchEncodeFirst(s, input) ==
  LET own == [n \in 1..Len(input) |->
                [input[n] EXCEPT !.prefix = IF @ = "none" THEN s ELSE @]]
      m0 == [self |-> s, ops |-> own, len |-> Len(input), i |-> 1, ns |-> "undef",
             st |-> "run", err |-> "none", ev |-> <<>>, enc |-> <<>>]
      m1 == EncodeOps(m0, 1)
  IN  IF m1.st # "run" THEN m1
      ELSE LET m2 == PreLoop(m1)
           IN  IF m2.st = "run" /\ Len(m2.ops) = 0 THEN [m2 EXCEPT !.st = "empty"]
               ELSE m2

\* The synchronous part of batch(ops, opts, cb) on handle s: the pre-hook loop,
\* then the empty check, then the map.
RunBatch(s, input) ==
  LET m0 == [self |-> s, ops |-> input, len |-> Len(input), i |-> 1, ns |-> "undef",
             st |-> "run", err |-> "none", ev |-> <<>>, enc |-> <<>>]
      m1 == PreLoop(m0)
  IN  IF m1.st # "run" THEN m1
      ELSE IF Len(m1.ops) = 0 THEN [m1 EXCEPT !.st = "empty"]
      ELSE EncodeOps(m1, 1)

\* The arrays a caller hands to batch, by the prefix of each operation:
\* operation n is a put of key [n].
PrefixSeqs == UNION {[1..n -> Prefixes] : n \in 0..MaxOps}

OpsOf(ps) == [n \in 1..Len(ps) |-> [type |-> "put", key |-> <<n>>, prefix |-> ps[n]]]

Cb(info) == Ev("cb", "-", "-", 0, NoOp, info)

\* space.batch(ops, opts, cb) on handle s, up to its return.
BatchOps(s, input) ==
  /\ pc = "idle"
  /\ \E m \in {RunBatch(s, input)} :
         /\ self' = s
         /\ ops' = m.ops
         /\ ns' = m.ns
         /\ len' = m.len
         /\ CASE m.st = "unknown" ->
                   \* return cb('Unknown prefix in batch commit')
                   /\ pc' = "done"
                   /\ tick' = "none"
                   /\ events' = Append(m.ev, Cb("unknownPrefix"))
                   /\ storeCalls' = <<>>
              [] m.st = "throw" ->
                   \* catch (err) { process.nextTick(function () { cb(err) }) }
                   /\ pc' = "tick"
                   /\ tick' = m.err
                   /\ events' = m.ev
                   /\ storeCalls' = <<>>
              [] m.st = "empty" ->
                   \* if (!ops.length) return cb()
                   /\ pc' = "done"
                   /\ tick' = "none"
                   /\ events' = Append(m.ev, Cb("ok"))
                   /\ storeCalls' = <<>>
              [] OTHER ->
                   \* db.batch(encodedOps, kvOpts(opts), function (err) {...})
                   /\ pc' = "store"
                   /\ tick' = "none"
                   /\ events' = Append(m.ev, Ev("store", "-", "-", 0, NoOp, "-"))
                   /\ storeCalls' = <<m.enc>>
  /\ reply' = "none"
  /\ UNCHANGED registry
  /\ UNCHANGED rangeVars
  /\ UNCHANGED prefixVars
  /\ UNCHANGED treeVars

\* A caller hands an array of operations to batch on handle s.
Batch(s, ps) == BatchOps(s, OpsOf(ps))

\* The operations put and del make of their key: no owner named.
PutOp == [type |-> "put", key |-> <<1>>, prefix |-> "none"]
DelOp == [type |-> "del", key |-> <<1>>, prefix |-> "none"]

\* put that goes to the store's own put where the namespace has no hook, and
\* to batch only where it has one.
PutDirect(s) ==
  IF Len(prehooks[s]) + Len(posthooks[s]) > 0
  THEN BatchOps(s, <<PutOp>>)
  ELSE /\ pc = "idle"
       /\ pc' = "store"
       /\ self' = s
       /\ ns' = s
       /\ ops' = <<>>
       /\ len' = 0
       /\ tick' = "none"
       /\ events' = <<Ev("store", "-", "-", 0, NoOp, "-")>>
       /\ storeCalls' = <<>>
       /\ reply' = "none"
       /\ UNCHANGED registry
       /\ UNCHANGED rangeVars
       /\ UNCHANGED prefixVars
       /\ UNCHANGED treeVars

\* space.put(k, v, opts, cb): space.batch([{ type: 'put', key: k, value: v }],
\* opts, cb).
Put(s) == BatchOps(s, <<PutOp>>)

\* space.del(k, opts, cb): space.batch([{ type: 'del', key: k }], opts, cb).
Del(s) == BatchOps(s, <<DelOp>>)

\* The function batch gave to process.nextTick runs.
NextTick ==
  /\ pc = "tick"
  /\ pc' = "done"
  /\ events' = Append(events, Cb(tick))
  /\ tick' = "none"
  /\ UNCHANGED <<self, ops, ns, storeCalls, len, reply>>
  /\ UNCHANGED registry
  /\ UNCHANGED rangeVars
  /\ UNCHANGED prefixVars
  /\ UNCHANGED treeVars

\* ns.trigger(ns.posthooks, op.prefix, [ op ]) for the operation at index i.
RECURSIVE TriggerPost(_, _, _, _)
TriggerPost(m, hooks, i, n) ==
  IF n > Len(hooks) \/ m.st # "run" THEN m
  ELSE LET seen == [m EXCEPT !.ev = Append(@, Ev("post", m.ns, hooks[n], i, m.ops[i], "-"))]
       IN  TriggerPost(IF hooks[n] = "bang" THEN [seen EXCEPT !.st = "throw"] ELSE seen,
                       hooks, i, n + 1)

\* ops.forEach(function (op) { ns.trigger(ns.posthooks, op.prefix, [ op ]) }):
\* holes are skipped, and the hooks are those of the batch's `ns`.
RECURSIVE PostLoop(_, _)
PostLoop(m, i) ==
  IF i > Len(m.ops) \/ m.st # "run" THEN m
  ELSE IF ~IsOp(m.ops[i]) THEN PostLoop(m, i + 1)
  ELSE PostLoop(TriggerPost(m, Hooks(posthooks[m.ns]), i, 1), i + 1)

\* The callback without the `return` of `if (err) return cb(err)`.
OnReplyFallThrough(ok) ==
  LET first == IF ok THEN events ELSE Append(events, Cb("storeError"))
      m0 == [ops |-> ops, ns |-> ns, st |-> "run", ev |-> first]
      m1 == IF Len(posthooks[ns]) > 0 THEN PostLoop(m0, 1) ELSE m0
  IN  IF m1.st = "throw"
      THEN Append(Append(m1.ev, Cb("hookError")), Cb("ok"))
      ELSE Append(m1.ev, Cb("ok"))

\* The callback batch gave to db.batch: function (err) { if (err) return
\* cb(err); try { post-hooks } catch (err) { cb(err) }; cb() }. The events it
\* adds.
OnReply(ok) ==
  IF ~ok THEN Append(events, Cb("storeError"))
  ELSE LET m0 == [ops |-> ops, ns |-> ns, st |-> "run", ev |-> events]
           m1 == IF Len(posthooks[ns]) > 0 THEN PostLoop(m0, 1) ELSE m0
       IN  IF m1.st = "throw"
           THEN Append(Append(m1.ev, Cb("hookError")), Cb("ok"))
           ELSE Append(m1.ev, Cb("ok"))

\* The store answers the db.batch call, with an error or without.
StoreReply(ok) ==
  /\ pc = "store"
  /\ pc' = "done"
  /\ reply' = IF ok THEN "ok" ELSE "error"
  /\ events' = OnReply(ok)
  /\ UNCHANGED <<self, ops, ns, tick, storeCalls, len>>
  /\ UNCHANGED registry
  /\ UNCHANGED rangeVars
  /\ UNCHANGED prefixVars
  /\ UNCHANGED treeVars

\* ------------------------------------------------------- range translation

\* A key or bound as a caller gives it: a string or a Buffer, with its bytes.
Str(bytes) == [kind |-> "str", bytes |-> bytes]
Buf(bytes) == [kind |-> "buf", bytes |-> bytes]

LOWER_BOUND == Buf(<<>>)
UPPER_BOUND == Buf(<<255>>)
rangeKeys == {"start", "end", "gt", "lt", "gte", "lte"}

\* Prefix.prototype.encode of the Prefix of handle s: a string becomes a
\* Buffer, and the Prefix's buffer is put before it.
PrefixEncode(s, key) == Buf(BytewiseEncode(Path(s)) \o key.bytes)

\* options[k] = v and delete options[k], on an options object.
With(o, k, v) == [x \in DOMAIN o \cup {k} |-> IF x = k THEN v ELSE o[x]]
Without(o, k) == [x \in DOMAIN o \ {k} |-> o[x]]

\* The start/end translation of preIterator, skipped when the caller's options
\* hold any of gt, lt, gte, lte.
StartEnd(o, reverse) ==
  LET has == [k \in rangeKeys |-> k \in DOMAIN o]
      gte == IF ~reverse
             THEN (IF has["start"] THEN o["start"] ELSE LOWER_BOUND)
             ELSE (IF has["end"] THEN o["end"] ELSE LOWER_BOUND)
      lte == IF ~reverse
             THEN (IF has["end"] THEN o["end"] ELSE UPPER_BOUND)
             ELSE (IF has["start"] THEN o["start"] ELSE UPPER_BOUND)
  IN  Without(Without(With(With(o, "gte", gte), "lte", lte), "start"), "end")

\* preIterator with the forward translation of start and end whatever
\* options.reverse is.
PreIteratorForward(s, o, reverse) ==
  LET has == [k \in rangeKeys |-> k \in DOMAIN o]
      translated == /\ has["start"] \/ has["end"]
                    /\ ~(has["gt"] \/ has["lt"] \/ has["gte"] \/ has["lte"])
      o1 == IF translated THEN StartEnd(o, FALSE) ELSE o
      hasGte == has["gte"] \/ translated
      hasLte == has["lte"] \/ translated
      o2 == IF has["gt"] THEN Without(With(o1, "gt", PrefixEncode(s, o1["gt"])), "gte")
            ELSE IF hasGte THEN With(o1, "gte", PrefixEncode(s, o1["gte"]))
            ELSE With(o1, "gt", PrefixEncode(s, LOWER_BOUND))
  IN  IF has["lt"] THEN Without(With(o2, "lt", PrefixEncode(s, o2["lt"])), "lte")
      ELSE IF hasLte THEN With(o2, "lte", PrefixEncode(s, o2["lte"]))
      ELSE With(o2, "lt", PrefixEncode(s, UPPER_BOUND))

\* preIterator with its default bounds left as the bare sentinels, their
\* this.encode forgotten.
PreIteratorBareDefaults(s, o, reverse) ==
  LET has == [k \in rangeKeys |-> k \in DOMAIN o]
      translated == /\ has["start"] \/ has["end"]
                    /\ ~(has["gt"] \/ has["lt"] \/ has["gte"] \/ has["lte"])
      o1 == IF translated THEN StartEnd(o, reverse) ELSE o
      hasGte == has["gte"] \/ translated
      hasLte == has["lte"] \/ translated
      o2 == IF has["gt"] THEN Without(With(o1, "gt", PrefixEncode(s, o1["gt"])), "gte")
            ELSE IF hasGte THEN With(o1, "gte", PrefixEncode(s, o1["gte"]))
            ELSE With(o1, "gt", LOWER_BOUND)
  IN  IF has["lt"] THEN Without(With(o2, "lt", PrefixEncode(s, o2["lt"])), "lte")
      ELSE IF hasLte THEN With(o2, "lte", PrefixEncode(s, o2["lte"]))
      ELSE With(o2, "lt", UPPER_BOUND)

\* preIterator that looks at gte before gt and at lte before lt.
PreIteratorInclusiveFirst(s, o, reverse) ==
  LET has == [k \in rangeKeys |-> k \in DOMAIN o]
      translated == /\ has["start"] \/ has["end"]
                    /\ ~(has["gt"] \/ has["lt"] \/ has["gte"] \/ has["lte"])
      o1 == IF translated THEN StartEnd(o, reverse) ELSE o
      hasGte == has["gte"] \/ translated
      hasLte == has["lte"] \/ translated
      o2 == IF hasGte THEN Without(With(o1, "gte", PrefixEncode(s, o1["gte"])), "gt")
            ELSE IF has["gt"] THEN With(o1, "gt", PrefixEncode(s, o1["gt"]))
            ELSE With(o1, "gt", PrefixEncode(s, LOWER_BOUND))
  IN  IF hasLte THEN Without(With(o2, "lte", PrefixEncode(s, o2["lte"])), "lt")
      ELSE IF has["lt"] THEN With(o2, "lt", PrefixEncode(s, o2["lt"]))
      ELSE With(o2, "lt", PrefixEncode(s, UPPER_BOUND))

\* preIterator bound to the Prefix of handle s: the options of its result.
PreIterator(s, o, reverse) ==
  LET has == [k \in rangeKeys |-> k \in DOMAIN o]
      translated == /\ has["start"] \/ has["end"]
                    /\ ~(has["gt"] \/ has["lt"] \/ has["gte"] \/ has["lte"])
      o1 == IF translated THEN StartEnd(o, reverse) ELSE o
      hasGte == has["gte"] \/ translated
      hasLte == has["lte"] \/ translated
      o2 == IF has["gt"] THEN Without(With(o1, "gt", PrefixEncode(s, o1["gt"])), "gte")
            ELSE IF hasGte THEN With(o1, "gte", PrefixEncode(s, o1["gte"]))
            ELSE With(o1, "gt", PrefixEncode(s, LOWER_BOUND))
  IN  IF has["lt"] THEN Without(With(o2, "lt", PrefixEncode(s, o2["lt"])), "lte")
      ELSE IF hasLte THEN With(o2, "lte", PrefixEncode(s, o2["lte"]))
      ELSE With(o2, "lt", PrefixEncode(s, UPPER_BOUND))

\* The bounds a caller gives: the string "a" and the Buffer [98].
RangeVals == {Str(<<97>>), Buf(<<98>>)}

Queries ==
  {[on |-> s, reverse |-> r, options |-> o] :
     s \in Spaces, r \in BOOLEAN,
     o \in UNION {[D -> RangeVals] : D \in SUBSET rangeKeys}}

\* A read stream is created on a handle: preIterator is given its options.
Resolve ==
  /\ query # NoQuery
  /\ resolved = NoOptions
  /\ resolved' = PreIterator(query.on, query.options, query.reverse)
  /\ UNCHANGED query
  /\ UNCHANGED registry
  /\ UNCHANGED batchVars
  /\ UNCHANGED prefixVars
  /\ UNCHANGED treeVars

\* ------------------------------------------------------ the Prefix objects

\* new Prefix(path): the path and its bytewise encoding.
Prefix(path) == [path |-> path, buffer |-> BytewiseEncode(path)]

\* Prefix.prototype.append with the new segment joined to the last one rather
\* than added to the path.
PrefixAppendJoined(P, sub) ==
  Prefix(SubSeq(P.path, 1, Len(P.path) - 1) \o <<P.path[Len(P.path)] \o sub>>)

\* Prefix.prototype.append: a new Prefix with one more segment.
PrefixAppend(P, sub) == Prefix(P.path \o <<sub>>)

\* key.slice(0, n) and key.slice(n) of a Buffer's bytes.
SliceTo(bytes, n) == SubSeq(bytes, 1, IF n < Len(bytes) THEN n ELSE Len(bytes))
SliceFrom(bytes, n) == SubSeq(bytes, n + 1, Len(bytes))

\* Prefix.prototype.contains, of a Buffer.
PrefixContains(P, key) == P.buffer = SliceTo(key.bytes, Len(P.buffer))

\* Prefix.prototype.decode that slices without asking contains.
PrefixDecodeAlways(P, key) == Buf(SliceFrom(key.bytes, Len(P.buffer)))

\* Prefix.prototype.decode, of a Buffer.
PrefixDecode(P, key) ==
  IF ~PrefixContains(P, key) THEN key
  ELSE Buf(SliceFrom(key.bytes, Len(P.buffer)))

\* Prefix.prototype.encode of any Prefix: a string becomes a Buffer, and the
\* Prefix's buffer is put before it.
EncodeKey(P, key) == Buf(P.buffer \o key.bytes)

\* The segments a path is made of: "r", "s" and "r\0".
PathSegs == {<<114>>, <<115>>, <<114, 0>>}

\* The keys a caller uses: Buffers (the empty one, [97], [255], [255, 1]) and
\* the string "a".
UserKeys == {Buf(<<>>), Buf(<<97>>), Str(<<97>>), Buf(<<255>>), Buf(<<255, 1>>)}

\* Buffers the store can hand back: too short to hold a prefix, or written
\* under the roots "r" and "s".
RawKeys ==
  {Buf(<<>>), Buf(<<160>>),
   Buf(BytewiseEncode(<< <<114>> >>) \o <<97>>),
   Buf(BytewiseEncode(<< <<115>> >>) \o <<97>>)}

\* space(db, namespace): a top level subspace, with a new Prefix([namespace]).
SpaceRoot(sub) ==
  /\ Len(made) < MaxPrefixes
  /\ made' = Append(made, [parent |-> 0, sub |-> sub, prefix |-> Prefix(<<sub>>)])
  /\ UNCHANGED keyed
  /\ UNCHANGED <<registry, batchVars, rangeVars, treeVars>>

\* sub.subspace(namespace) on the subspace of made[n]: prefix.append.
Subspace(n, sub) ==
  /\ Len(made) < MaxPrefixes
  /\ n \in 1..Len(made)
  /\ Len(made[n].prefix.path) < MaxDepth
  /\ made' = Append(made, [parent |-> n, sub |-> sub,
                           prefix |-> PrefixAppend(made[n].prefix, sub)])
  /\ UNCHANGED keyed
  /\ UNCHANGED <<registry, batchVars, rangeVars, treeVars>>

\* A key is written under made[n] and read back: prePut's this.encode, then
\* postNext's this.decode of the stored key.
RoundTrip(n, k) ==
  /\ n \in 1..Len(made)
  /\ \E enc \in {EncodeKey(made[n].prefix, k)} :
       keyed' = [op |-> "roundtrip", on |-> n, key |-> k, enc |-> enc,
                 out |-> PrefixDecode(made[n].prefix, enc)]
  /\ UNCHANGED made
  /\ UNCHANGED <<registry, batchVars, rangeVars, treeVars>>

\* The store hands the Buffer f to made[n]: this.decode(f).
DecodeRaw(n, f) ==
  /\ n \in 1..Len(made)
  /\ keyed' = [op |-> "decode", on |-> n, key |-> f, enc |-> f,
               out |-> PrefixDecode(made[n].prefix, f)]
  /\ UNCHANGED made
  /\ UNCHANGED <<registry, batchVars, rangeVars, treeVars>>

\* A read stream without options on made[n], the Prefix of handle s.
Scan(s, n) ==
  /\ n \in 1..Len(made)
  /\ made[n].prefix.path = Path(s)
  /\ keyed' = [op |-> "scan", on |-> n, key |-> LOWER_BOUND, enc |-> LOWER_BOUND,
               out |-> PreIterator(s, <<>>, FALSE)]
  /\ UNCHANGED made
  /\ UNCHANGED <<registry, batchVars, rangeVars, treeVars>>

\* ------------------------------------------------------- space.sublevel

\* Segments a caller names a sublevel by: the strings "1", "x" and
\* "constructor", and the number 1.
Segments ==
  {[kind |-> "str", v |-> "1"], [kind |-> "num", v |-> "1"],
   [kind |-> "str", v |-> "x"], [kind |-> "str", v |-> "constructor"]}

\* The property key a segment becomes in index[ns_]: its string form.
PropertyKey(seg) == seg.v

\* What a plain object inherits: of the keys used here, "constructor".
ObjectPrototype == {"constructor"}

\* A handle as a value, the inherited value of a key, and undefined.
HandleVal(n) == [kind |-> "handle", id |-> n, key |-> "-"]
InheritedVal(key) == [kind |-> "inherited", id |-> 0, key |-> key]
Undefined == [kind |-> "undefined", id |-> 0, key |-> "-"]

\* index[key] of the plain object index.
Get(index, key) ==
  IF key \in DOMAIN index THEN HandleVal(index[key])
  ELSE IF key \in ObjectPrototype THEN InheritedVal(key)
  ELSE Undefined

\* Namespace.prototype.append: the path with one more segment.
NsAppend(path, seg) == path \o <<seg>>

\* The root handle of a tree: Bytespace(db, 'r'), no sublevel made yet.
RootHandle == [path |-> <<[kind |-> "str", v |-> "r"]>>, sublevels |-> <<>>]

\* space.sublevel(seg) on handle h: what it returns, and the handles after.
SublevelResult(h, seg) ==
  LET found == Get(handles[h].sublevels, PropertyKey(seg))
      new == Len(handles) + 1
  IN  IF found # Undefined
      THEN [ret |-> found, handles |-> handles]
      ELSE [ret |-> HandleVal(new),
            handles |->
              Append([handles EXCEPT ![h].sublevels = With(@, PropertyKey(seg), new)],
                     [path |-> NsAppend(handles[h].path, seg), sublevels |-> <<>>])]

Sublevel(h, seg) ==
  /\ Len(returned) < MaxSublevelCalls
  /\ h \in 1..Len(handles)
  /\ \E r \in {SublevelResult(h, seg)} :
       /\ handles' = r.handles
       /\ returned' = Append(returned, [on |-> h, segment |-> seg, ret |-> r.ret])
  /\ UNCHANGED <<registry, batchVars, rangeVars, prefixVars>>

\* ------------------------------------------------------- the specifications

Next ==
  \/ \E s \in Spaces, h \in PreFns : Pre(s, h)
  \/ \E s \in Spaces, h \in PostFns : Post(s, h)
  \/ \E s \in Spaces, ps \in PrefixSeqs : Batch(s, ps)
  \/ \E s \in Spaces : Put(s)
  \/ \E s \in Spaces : Del(s)
  \/ NextTick
  \/ \E ok \in BOOLEAN : StoreReply(ok)

Spec == Init /\ [][Next]_vars

NextHooks ==
  \/ \E s \in Spaces, h \in PreFns : Pre(s, h)
  \/ \E s \in Spaces, h \in PostFns : Post(s, h)
  \/ \E d \in 1..MaxRegs : Dereg(d)

SpecHooks == Init /\ [][NextHooks]_vars

InitRange ==
  /\ InitSpaces
  /\ query \in Queries
  /\ resolved = NoOptions
  /\ NoPrefixes
  /\ NoTree

NextRange == Resolve

SpecRange == InitRange /\ [][NextRange]_vars

InitPrefix == Init

NextPrefix ==
  \/ \E sub \in PathSegs : SpaceRoot(sub)
  \/ \E n \in 1..MaxPrefixes, sub \in PathSegs : Subspace(n, sub)
  \/ \E n \in 1..MaxPrefixes, k \in UserKeys : RoundTrip(n, k)
  \/ \E n \in 1..MaxPrefixes, f \in RawKeys : DecodeRaw(n, f)
  \/ \E s \in Spaces, n \in 1..MaxPrefixes : Scan(s, n)

SpecPrefix == InitPrefix /\ [][NextPrefix]_vars

InitTree ==
  /\ InitSpaces
  /\ query = NoQuery
  /\ resolved = NoOptions
  /\ NoPrefixes
  /\ handles = <<RootHandle>>
  /\ returned = <<>>

NextTree == \E h \in 1..(MaxSublevelCalls + 1), seg \in Segments : Sublevel(h, seg)

SpecTree == InitTree /\ [][NextTree]_vars


\* ---------------------------------------------------- what a batch call did

EvOf(kind) == SelectSeq(events, LAMBDA e : e.kind = kind)

\* What the caller's callback was called with, in order.
CbInfos == [n \in 1..Len(EvOf("cb")) |-> EvOf("cb")[n].info]

\* The pre-hook and post-hook calls that were given the operation at index i.
PreAt(i) == SelectSeq(events, LAMBDA e : e.kind = "pre" /\ e.i = i)
PostAt(i) == SelectSeq(events, LAMBDA e : e.kind = "post" /\ e.i = i)

HooksOf(evs) == [n \in 1..Len(evs) |-> evs[n].hook]

\* A pre-hook called add(false) for the operation at index i.
Cancelled(i) == \E n \in 1..Len(events) :
  events[n].kind = "pre" /\ events[n].i = i /\ events[n].hook = "cancel"

PreThrew == \E n \in 1..Len(events) : events[n].kind = "pre" /\ events[n].hook = "boom"
PostThrew == \E n \in 1..Len(events) : events[n].kind = "post" /\ events[n].hook = "bang"

\* The namespace that owns the operation at index i: its prefix, or by
\* default the handle batch was called on.
Owner(i) == IF ops[i].prefix = "none" THEN self ELSE ops[i].prefix

\* The post-hook calls the operation at index i is due: the post-hooks of its
\* owner, in registration order, each with the operation as it was handed in.
DuePost(i) ==
  [n \in 1..Len(posthooks[Owner(i)]) |->
     Ev("post", Owner(i), Hooks(posthooks[Owner(i)])[n], i,
        [ops[i] EXCEPT !.prefix = Owner(i)], "-")]

\* The batch call was answered by the store without error and no post-hook threw.
Committed == pc = "done" /\ reply = "ok" /\ ~PostThrew

\* An operation of the array handed to batch names an owner that is no Namespace.
HasBad == \E i \in 1..len : ops[i].prefix = "bad"

\* The list a registration was made on.
ListOf(d) == IF regs[d].kind = "pre" THEN prehooks[regs[d].ns] ELSE posthooks[regs[d].ns]

Count(list, hook) == Cardinality({n \in 1..Len(list) : regs[list[n]].hook = hook})

\* ----------------------------------------------------------------- claims

\* C1: when a pre-hook cancels its own operation with mutate(false), that
\* operation is absent from the array passed to the store and gets no
\* post-hook, while every other operation of the batch is passed to the store
\* and gets the post-hooks of its owner.
C1_CancelOnlyThatOp ==
  (Committed /\ \E j \in 1..Len(ops) : Cancelled(j)) =>
    \A i \in 1..Len(ops) :
      IF Cancelled(i)
      THEN storeCalls[1][i] = EncHole /\ PostAt(i) = <<>>
      ELSE storeCalls[1][i] # EncHole /\ PostAt(i) = DuePost(i)

\* C2, as claimed: if any operation of a batch names an owner that is no
\* Namespace, the store is never called and the batch ends with the
\* unknown-prefix error.
C2_AlwaysUnknownPrefix ==
  HasBad =>
    /\ storeCalls = <<>>
    /\ pc # "store"
    /\ pc = "done" => CbInfos = <<"unknownPrefix">>

\* C2, amended: if any operation of the array handed to batch names an owner
\* that is no Namespace, the store is never called; the batch ends with the
\* unknown-prefix error, unless a pre-hook of an operation before the invalid
\* one threw, and then it ends with that hook's error.
C2_UnknownPrefixAborts ==
  HasBad =>
    /\ storeCalls = <<>>
    /\ reply = "none"
    /\ IF PreThrew
       THEN \/ pc = "tick" /\ tick = "hookError" /\ CbInfos = <<>>
            \/ pc = "done" /\ CbInfos = <<"hookError">>
       ELSE pc = "done" /\ CbInfos = <<"unknownPrefix">>

\* C2's case: the second operation is the invalid one, the first had a
\* pre-hook called, and the batch ended with the unknown-prefix error.
C2_Witness ==
  /\ len = 2
  /\ ops[2].prefix = "bad"
  /\ PreAt(1) # <<>>
  /\ pc = "done"
  /\ CbInfos = <<"unknownPrefix">>

\* C3: after a successful store call, every committed operation gets exactly
\* the post-hooks of its own owner, in registration order, each called with
\* the operation carrying its original key and its owning handle.
C3_OwnPostHooks ==
  Committed => \A i \in 1..Len(ops) : IsOp(ops[i]) => PostAt(i) = DuePost(i)

\* C4: every operation a pre-hook appended with mutate(op) has been passed
\* through the pre-hooks of its owner when the store's batch is called.
C4_InjectedSeePreHooks ==
  storeCalls # <<>> =>
    \A i \in (len + 1)..Len(ops) :
      IsOp(ops[i]) => HooksOf(PreAt(i)) = Hooks(prehooks[Owner(i)])

\* C5: if no operation is pending after the pre-hooks ran (none was given, or
\* each was cancelled), batch reports success and the store is not called.
C5_NothingPending ==
  (/\ pc \in {"store", "done"}
   /\ ~PreThrew
   /\ ~HasBad
   /\ \A i \in 1..Len(ops) : ~IsOp(ops[i])) =>
    /\ storeCalls = <<>>
    /\ CbInfos = <<"ok">>

\* C6: if an operation is pending after the pre-hooks ran, the store's batch
\* is called exactly once, with every pending operation (given or injected),
\* each with its key encoded under its own owner, and with nothing else.
C6_OneStoreCall ==
  (/\ pc # "idle"
   /\ ~PreThrew
   /\ ~HasBad
   /\ \E i \in 1..Len(ops) : IsOp(ops[i])) =>
    /\ Len(storeCalls) = 1
    /\ Len(storeCalls[1]) = Len(ops)
    /\ \A i \in 1..Len(ops) :
         storeCalls[1][i] =
           IF IsOp(ops[i])
           THEN [type |-> ops[i].type, key |-> NsEncode(Owner(i), ops[i].key)]
           ELSE EncHole

\* C7: when the store reports an error, the callback gets that error, once,
\* and no post-hook is called for any operation of the batch.
C7_StoreErrorSkipsPost ==
  reply = "error" =>
    /\ CbInfos = <<"storeError">>
    /\ EvOf("post") = <<>>

\* C7's case: the store failed a batch whose namespace has post-hooks.
C7_Witness ==
  /\ reply = "error"
  /\ ns \in Spaces
  /\ posthooks[ns] # <<>>
  /\ \E i \in 1..Len(ops) : IsOp(ops[i])

\* Registrations d and e are the only two of one hook on one list.
TheTwo(d, e) ==
  /\ d < e
  /\ regs[d] = regs[e]
  /\ \A f \in 1..Len(regs) : regs[f] = regs[d] => f \in {d, e}

\* C8: a hook registered twice on one list, with one of the two handles
\* invoked once, has exactly one registration left on the list.
C8_OneLeft ==
  \A d, e \in 1..Len(regs) :
    (TheTwo(d, e) /\ calls[d] + calls[e] = 1) =>
      Count(ListOf(d), regs[d].hook) = 1

\* C8's case: the second handle of a twice-registered hook was invoked once.
C8_Witness ==
  \E d, e \in 1..Len(regs) : TheTwo(d, e) /\ calls[d] = 0 /\ calls[e] = 1

\* C9: a handle removes the registration it was issued for and no other: a
\* registration is on its list exactly as long as its own handle was never
\* invoked, and the registrations left keep their order.
C9_SlotExact ==
  /\ \A d \in 1..Len(regs) :
       (\E n \in 1..Len(ListOf(d)) : ListOf(d)[n] = d) <=> calls[d] = 0
  /\ \A s \in Spaces :
       /\ \A n, k \in 1..Len(prehooks[s]) : n < k => prehooks[s][n] < prehooks[s][k]
       /\ \A n, k \in 1..Len(posthooks[s]) : n < k => posthooks[s][n] < posthooks[s][k]

\* The bound a query gives under key k, encoded under the query's Prefix.
Encoded(k) == Buf(BytewiseEncode(Path(query.on)) \o query.options[k].bytes)
Sentinel(bytes) == Buf(BytewiseEncode(Path(query.on)) \o bytes)

\* C10: with start and/or end and none of gt, gte, lt, lte, the store gets
\* exactly gte and lte: forward, gte is the encoded start and lte the encoded
\* end; reverse, gte is the encoded end and lte the encoded start; a missing
\* one is the encoded empty Buffer as gte, or the encoded [0xFF] as lte.
C10_StartEnd ==
  LET given == DOMAIN query.options
      lower == IF query.reverse THEN "end" ELSE "start"
      upper == IF query.reverse THEN "start" ELSE "end"
  IN  (/\ resolved # NoOptions
       /\ given # {}
       /\ given \subseteq {"start", "end"}) =>
        /\ DOMAIN resolved = {"gte", "lte"}
        /\ resolved["gte"] = IF lower \in given THEN Encoded(lower) ELSE Sentinel(<<>>)
        /\ resolved["lte"] = IF upper \in given THEN Encoded(upper) ELSE Sentinel(<<255>>)

\* C10's case: a reverse query with distinct start and end was resolved.
C10_Witness ==
  /\ resolved # NoOptions
  /\ query.reverse
  /\ DOMAIN query.options = {"start", "end"}
  /\ query.options["start"] # query.options["end"]

\* C11: a query with none of gt, gte, lt, lte, start, end resolves to the
\* namespace's prefix block: the lower bound is the prefix followed by no
\* byte, the upper bound the prefix followed by the byte 0xFF, and the store
\* gets no other bound.
C11_DefaultRange ==
  (resolved # NoOptions /\ DOMAIN query.options = {}) =>
    /\ DOMAIN resolved = {"gt", "lt"}
    /\ resolved["gt"] = Buf(BytewiseEncode(Path(query.on)))
    /\ resolved["lt"] = Buf(BytewiseEncode(Path(query.on)) \o <<255>>)

\* C11's case: a query without any bound was resolved on the sublevel.
C11_Witness ==
  /\ resolved # NoOptions
  /\ DOMAIN query.options = {}
  /\ query.on = "b"

\* C12: whatever range options the caller gives, every bound in the options
\* handed to the store is a Buffer that begins with the namespace's prefix.
C12_AllBoundsPrefixed ==
  resolved # NoOptions =>
    \A k \in DOMAIN resolved :
      /\ resolved[k].kind = "buf"
      /\ IsPrefixOf(BytewiseEncode(Path(query.on)), resolved[k].bytes)


\* ------------------------------------------------- what the Prefixes made do

\* Lexicographic order of byte strings, the order of the store's keys.
RECURSIVE BytesLess(_, _)
BytesLess(x, y) ==
  IF y = <<>> THEN FALSE
  ELSE IF x = <<>> THEN TRUE
  ELSE IF Head(x) # Head(y) THEN Head(x) < Head(y)
  ELSE BytesLess(Tail(x), Tail(y))

\* The stored key k lies within the bounds of the options o.
Admits(o, k) ==
  /\ "gt" \in DOMAIN o => BytesLess(o["gt"].bytes, k)
  /\ "gte" \in DOMAIN o => ~BytesLess(k, o["gte"].bytes)
  /\ "lt" \in DOMAIN o => BytesLess(k, o["lt"].bytes)
  /\ "lte" \in DOMAIN o => ~BytesLess(o["lte"].bytes, k)

Made == 1..Len(made)
BufferOf(n) == made[n].prefix.buffer
PathOf(n) == made[n].prefix.path
Children == {m \in Made : made[m].parent > 0}

\* made[m] and made[n] were made from the same Prefix (or both as roots),
\* with two distinct segments.
Siblings(m, n) == made[m].parent = made[n].parent /\ made[m].sub # made[n].sub

\* The namespace of made[m] is that of made[n] or one of its descendants.
Descends(m, n) == IsPrefixOf(PathOf(n), PathOf(m))

AllButLast(bytes) == SubSeq(bytes, 1, Len(bytes) - 1)

NoSiblingPrefixes ==
  \A m, n \in Made :
    Siblings(m, n) => ~IsPrefixOf(BufferOf(m), BufferOf(n))

C15_RoundTripIsKey ==
  /\ keyed.op = "roundtrip" => keyed.out = keyed.key
  /\ (keyed.op = "decode" /\ ~IsPrefixOf(BufferOf(keyed.on), keyed.key.bytes))
       => keyed.out = keyed.key

\* C15: N.decode(N.encode(k)) is the Buffer of k's bytes (k itself when k is a
\* Buffer, the bytes of the string when k is a string), and N.decode(f) is f
\* for a Buffer f that N does not contain.
C15_RoundTripIsBuffer ==
  /\ keyed.op = "roundtrip" => keyed.out = Buf(keyed.key.bytes)
  /\ (keyed.op = "decode" /\ ~IsPrefixOf(BufferOf(keyed.on), keyed.key.bytes))
       => keyed.out = keyed.key

\* C15's cases: a string key written under a sublevel and read back, and a
\* Buffer shorter than the prefix handed to decode.
C15_Witness ==
  \/ /\ keyed.op = "roundtrip"
     /\ keyed.key.kind = "str"
     /\ made[keyed.on].parent > 0
  \/ /\ keyed.op = "decode"
     /\ keyed.key = Buf(<<160>>)


\* C17: on one handle, sublevel called again with the same segment returns
\* the same handle, and sublevel called with two distinct segments returns two
\* distinct handles whose namespaces have different paths.
C17_SublevelMemo ==
  \A i, j \in 1..Len(returned) :
    returned[i].on = returned[j].on =>
      IF returned[i].segment = returned[j].segment
      THEN returned[i].ret = returned[j].ret
      ELSE /\ returned[i].ret.kind = "handle"
           /\ returned[j].ret.kind = "handle"
           /\ returned[i].ret # returned[j].ret
           /\ handles[returned[i].ret.id].path # handles[returned[j].ret.id].path


\* C16: no failure that arises inside a call is delivered to the callback
\* before the call returns: when batch, put or del returns, the callback has
\* been called with no error.
C16_FailuresAfterReturn ==
  [][(pc = "idle" /\ pc' # "idle") =>
       \A n \in 1..Len(events') :
         events'[n].kind = "cb" => events'[n].info = "ok"]_vars

InRegistrationOrder(evs, lists) ==
  evs # <<>> => IsPrefixOf(HooksOf(evs), Hooks(lists[evs[1].ns]))

\* C19: within one batch call every pre-hook call comes before any key is
\* encoded and before the store is called, the operations are visited in array
\* order and the hooks of a namespace in registration order; every post-hook
\* call comes after the store answered without error, in the same orders.
C19_HookOrder ==
  /\ \A a, b \in 1..Len(events) :
       /\ (events[a].kind = "pre" /\ events[b].kind \in {"encode", "store"}) => a < b
       /\ (events[a].kind = "post" /\ events[b].kind \in {"pre", "encode", "store"}) => b < a
       /\ (a < b /\ events[a].kind = events[b].kind /\ events[a].kind \in {"pre", "post"})
            => events[a].i <= events[b].i
  /\ \A i \in 1..Len(ops) :
       /\ InRegistrationOrder(PreAt(i), prehooks)
       /\ InRegistrationOrder(PostAt(i), posthooks)
  /\ EvOf("post") # <<>> => reply = "ok" /\ EvOf("store") # <<>>

\* C19's case: a batch of two operations, a pre-hook called for both, the
\* store called, and a post-hook called for both.
C19_Witness ==
  /\ PreAt(1) # <<>>
  /\ PreAt(2) # <<>>
  /\ EvOf("store") # <<>>
  /\ PostAt(1) # <<>>
  /\ PostAt(2) # <<>>

\* C20: an operation a batch commits without an owner, one injected by a
\* pre-hook included, is owned by the batch's own namespace: the batch does
\* not fail for the missing owner, and the operation's key goes to the store
\* under the prefix of the batch's namespace.
C20_OwnerDefaults ==
  /\ tick # "typeError"
  /\ \A n \in 1..Len(CbInfos) : CbInfos[n] # "typeError"
  /\ storeCalls # <<>> =>
       \A i \in 1..Len(ops) :
         (IsOp(ops[i]) /\ i > len /\ ops[i].prefix = "none")
           => storeCalls[1][i].key = NsEncode(self, ops[i].key)


\* C21: when gt and gte are both given, the lower bound handed to the store
\* is the encoded gt and gte is absent; when lt and lte are both given, the
\* upper bound is the encoded lt and lte is absent; and the options handed to
\* the store always hold exactly one of gt and gte and exactly one of lt and
\* lte.
C21_ExclusiveWins ==
  resolved # NoOptions =>
    /\ ("gt" \in DOMAIN resolved) # ("gte" \in DOMAIN resolved)
    /\ ("lt" \in DOMAIN resolved) # ("lte" \in DOMAIN resolved)
    /\ {"gt", "gte"} \subseteq DOMAIN query.options =>
         /\ "gte" \notin DOMAIN resolved
         /\ resolved["gt"] =
              Buf(BytewiseEncode(Path(query.on)) \o query.options["gt"].bytes)
    /\ {"lt", "lte"} \subseteq DOMAIN query.options =>
         /\ "lte" \notin DOMAIN resolved
         /\ resolved["lt"] =
              Buf(BytewiseEncode(Path(query.on)) \o query.options["lt"].bytes)

\* C21's case: gt, gte, lt and lte all given, gt unlike gte and lt unlike lte,
\* and the query resolved.
C21_Witness ==
  /\ resolved # NoOptions
  /\ DOMAIN query.options = {"gt", "gte", "lt", "lte"}
  /\ query.options["gt"] # query.options["gte"]
  /\ query.options["lt"] # query.options["lte"]

\* C22: the callback of a batch call is called exactly once on every path:
\* never before the call is over more than once, and once when it is over.
C22_CallbackOnce ==
  /\ Len(CbInfos) <= 1
  /\ pc = "done" => Len(CbInfos) = 1


====
